---- MODULE Spec2Model ----
(***************************************************************************)
(* Model of app/scraper.py: the Loader class.                              *)
(*                                                                         *)
(*   Loader.scrape   the fetch-completion convergence loop: purge, launch  *)
(*                   of the crawler, page counting, stall detection and    *)
(*                   the bounded retry driver (lines 91-173);              *)
(*   Loader._delete  the purge of a product's folder (lines 61-77);        *)
(*   Loader.extract  parsing of the stored pages and the upserts           *)
(*                   (lines 175-253).                                      *)
(*                                                                         *)
(* The folder reviews/com/<asin>/ is shared with the crawler               *)
(* (amazon_crawler.py), which writes pages into it while scrape runs.      *)
(* Every numbered line below is a line of app/scraper.py.                  *)
(***************************************************************************)
EXTENDS Integers, Sequences, FiniteSets, TLC

\* ------------------------------------------------------------------ bounds
\* Highest page number the crawler writes.
MaxPage == 3

\* `while last_page == 1 and retries < 5` (line 166)
MaxRetries == 5

\* len(asin) != 10 (line 55), [:10] (line 57)
AsinLen == 10

\* n_reviews / 10., reviews / 10. (lines 143-144)
PageSize == 10

VARIABLES
    \* ---- Loader attributes (lines 34-38)
    url,            \* self.url
    asin,           \* self.asin
    \* ---- the file system
    cwd,            \* where amazon_crawler.py is: "cwd", "scripts", "absent", "noscripts"
    isdir,          \* os.path.isdir(reviews/com/<asin>)
    files,          \* numbers N of the pages <asin>_N.html in the folder
    summary,        \* text of the totalReviewCount span of page 1, or NoTag
    \* ---- the crawler, as a concurrent process
    fRunning,       \* a crawler process is alive
    fNext,          \* number of the page it writes next
    \* ---- scrape: control and locals of the active invocation
    pc,             \* line about to be executed, "idle", "done" or "raised"
    depth,          \* 0: the caller's invocation, 1: the recursive one (line 168)
    n_reviews,
    delete,
    retries,
    last_page,
    reviews,        \* line 142
    expected_pages, \* line 143
    new_files,      \* line 135
    old_count,      \* line 151
    pages,          \* _delete: the listing of line 66
    delRet,         \* _delete: the line it returns to (113 or 173)
    err,            \* the exception that left scrape, <<kind, line>>
    \* ---- history (not read by any action)
    path,           \* per invocation depth: "none", "fresh", "resume"
    launches,       \* os.system calls of this scrape
    purges,         \* completed _delete calls of this scrape
    stalled,        \* the caller's invocation set new_files = False
    converged,      \* the caller's invocation left the poll loop on last_page = expected_pages
    polls,          \* recounts of line 152 made by the active invocation
    \* ---- the pages' contents and the review_data collection
    content,        \* page number -> the "a-section review" blocks of the page
    link,           \* page 1 has an .a-link-normal element (line 203)
    tab,            \* db['review_data']: _id -> document
    \* ---- Loader attributes set by extract (lines 35-37)
    name,           \* self.name
    self_ratings,   \* self.ratings
    self_reviews,   \* self.reviews
    \* ---- extract: control and locals
    xpc,            \* line about to be executed, "idle", "done" or "raised"
    index,          \* line 191
    listing,        \* line 208: the pages in the order os.listdir gave
    pi,             \* position of the current page in listing
    ti,             \* position of the current block in the page
    x_ratings,      \* line 209
    x_reviews,      \* line 209
    xerr,           \* the exception that left extract, <<kind, line>>
    \* ---- history (not read by any action)
    run,            \* number of extract calls made
    emitted,        \* <<_id, document>> of every upsert of the current call
    emitted1,       \* emitted, as the previous call left it
    tab1,           \* tab, as the previous call left it
    xpc1            \* xpc, as the previous call left it

scrapeVars == <<url, asin, cwd, isdir, files, summary, fRunning, fNext, pc, depth,
                n_reviews, delete, retries, last_page, reviews, expected_pages,
                new_files, old_count, pages, delRet, err, path, launches, purges,
                stalled, converged, polls>>

extractVars == <<content, link, tab, name, self_ratings, self_reviews, xpc, index,
                 listing, pi, ti, x_ratings, x_reviews, xerr, run, emitted, emitted1,
                 tab1, xpc1>>

\* ---- two Loaders at work on one disk and one collection
VARIABLES
    disk,           \* reviews/com: folder path -> [isdir, files]
    l_pc,           \* position of each Loader
    l_last_page,    \* last_page of each Loader's scrape
    l_pages,        \* pages of each Loader's extract (line 208), as a count
    l_index         \* index of each Loader's extract

twoVars == <<disk, l_pc, l_last_page, l_pages, l_index>>

vars == <<scrapeVars, extractVars, twoVars>>

NoTag == <<"NoTag">>
NoErr == <<"none", 0>>
\* Python's None; a node BeautifulSoup does not find
None == "None"
NoName == None
NoNode == None

\* ------------------------------------------------------------ input domains
\* //h/dp/B000000001/ref : the identifier is the last segment but one
UrlMid == <<"/", "/", "h", "/", "d", "p", "/",
            "B", "0", "0", "0", "0", "0", "0", "0", "0", "1", "/", "r", "e", "f">>
\* //h/dp/B000000001 : the identifier is the last segment
UrlEnd == <<"/", "/", "h", "/", "d", "p", "/",
            "B", "0", "0", "0", "0", "0", "0", "0", "0", "1">>
\* h : no segment at all
UrlNone == <<"h">>

\* //h/dp/B000000001/ref/y : the identifier is followed by two segments
UrlTail == UrlMid \o <<"/", "y">>

Urls == {UrlMid, UrlNone}

NReviewsChoices == {10, 25, 300}

SummaryTexts == { <<"8">>, <<"2", "0">>, <<"4", "5">>, <<"1", ",", "2", "3", "4">>,
                  <<"4", "x">>, NoTag }

CwdChoices == {"cwd", "scripts", "absent", "noscripts"}

\* ----------------------------------------------------------- _get_id (40-59)
\* [^/]* matched greedily from position i
RECURSIVE Run(_, _)
Run(u, i) ==
    IF i > Len(u) \/ u[i] = "/" THEN <<>> ELSE <<u[i]>> \o Run(u, i + 1)

\* regex.findall(url) for (?<=/)[^/]* : the search restarts after each match,
\* one position further after an empty match
RECURSIVE FindAllFrom(_, _)
FindAllFrom(u, i) ==
    IF i > Len(u) + 1 THEN <<>>
    ELSE IF i > 1 /\ u[i - 1] = "/"
         THEN LET m == Run(u, i)
              IN  <<m>> \o FindAllFrom(u, IF Len(m) = 0 THEN i + 1 ELSE i + Len(m))
         ELSE FindAllFrom(u, i + 1)

FindAll(u) == FindAllFrom(u, 1)

\* s[:n]
Take(s, n) == SubSeq(s, 1, IF Len(s) < n THEN Len(s) ELSE n)

\* regex.findall(url)[-2] raises IndexError with fewer than two matches
GetIdRaises(u) == Len(FindAll(u)) < 2

GetIdValue(u) ==
    LET m == FindAll(u)
        a == m[Len(m) - 1]
    IN  IF Len(a) # AsinLen THEN Take(m[Len(m)], AsinLen) ELSE a

\* ------------------------------------------------- page arithmetic (142-144)
Digits == {"0", "1", "2", "3", "4", "5", "6", "7", "8", "9"}

DigitVal(c) ==
    CASE c = "0" -> 0 [] c = "1" -> 1 [] c = "2" -> 2 [] c = "3" -> 3 [] c = "4" -> 4
      [] c = "5" -> 5 [] c = "6" -> 6 [] c = "7" -> 7 [] c = "8" -> 8 [] c = "9" -> 9

\* tag.text.replace(',', '')
RECURSIVE StripCommas(_)
StripCommas(t) ==
    IF t = <<>> THEN <<>>
    ELSE IF Head(t) = "," THEN StripCommas(Tail(t))
         ELSE <<Head(t)>> \o StripCommas(Tail(t))

\* int(s) raises ValueError on an empty string or a non-digit
IntRaises(s) == s = <<>> \/ \E i \in 1..Len(s) : s[i] \notin Digits

RECURSIVE IntOf(_)
IntOf(s) ==
    IF s = <<>> THEN 0 ELSE IntOf(SubSeq(s, 1, Len(s) - 1)) * 10 + DigitVal(s[Len(s)])

\* the division rounded down instead of up
CeilPages_Floor(n) == n \div PageSize

\* int(math.ceil(n / 10.))
CeilPages(n) == IF n % PageSize = 0 THEN n \div PageSize ELSE n \div PageSize + 1

Min(a, b) == IF a < b THEN a ELSE b

ExpectedPages(n, r) == Min(CeilPages(n), CeilPages(r))

\* _get_html_count (79-89)
HtmlCount == Cardinality(files)

\* extract has not been called and the collection is empty
\* ------------------------------------------------ two products, two Loaders
\* //h/dp/B000000002/ref
UrlOther == <<"/", "/", "h", "/", "d", "p", "/",
              "B", "0", "0", "0", "0", "0", "0", "0", "0", "2", "/", "r", "e", "f">>

\* self.asin of Loader 1 and of Loader 2
TwoAsins == <<GetIdValue(UrlMid), GetIdValue(UrlOther)>>

Loaders == 1..2

\* every folder path under one name, whatever the product
FolderOf_Shared(a) == <<"reviews/com/">>

\* os.getcwd() + '/reviews/com/' + self.asin (lines 64, 109, 208)
FolderOf(a) == <<"reviews/com/">> \o a

TwoFolders == { FolderOf(TwoAsins[L]) : L \in Loaders }

NoFolder == [isdir |-> FALSE, files |-> {}]

TwoIdle ==
    /\ disk = [f \in TwoFolders |-> NoFolder]
    /\ l_pc = [L \in Loaders |-> "idle"]
    /\ l_last_page = [L \in Loaders |-> 0]
    /\ l_pages = [L \in Loaders |-> 0]
    /\ l_index = [L \in Loaders |-> 0]

ExtractIdle ==
    /\ tab = <<>>
    /\ self_ratings = None
    /\ self_reviews = None
    /\ xpc = "idle"
    /\ index = 0
    /\ listing = <<>>
    /\ pi = 0
    /\ ti = 0
    /\ x_ratings = <<>>
    /\ x_reviews = <<>>
    /\ xerr = NoErr
    /\ run = 0
    /\ emitted = <<>>
    /\ emitted1 = <<>>
    /\ tab1 = <<>>
    /\ xpc1 = "idle"

\* scrape has not been called
ScrapeIdle ==
    /\ pc = "idle"
    /\ depth = 0
    /\ n_reviews = 0
    /\ delete = FALSE
    /\ retries = 0
    /\ last_page = 0
    /\ reviews = 0
    /\ expected_pages = 0
    /\ new_files = FALSE
    /\ old_count = 0
    /\ pages = {}
    /\ delRet = 0
    /\ err = NoErr
    /\ path = <<"none", "none">>
    /\ launches = 0
    /\ purges = 0
    /\ stalled = FALSE
    /\ converged = FALSE
    /\ polls = 0

\* ------------------------------------------------------------------- Init
Init ==
    /\ url \in Urls
    /\ asin = <<>>
    /\ cwd \in CwdChoices
    /\ summary \in SummaryTexts
    /\ \E k \in 0..MaxPage :
          /\ files = 1..k
          /\ isdir \in (IF k > 0 THEN {TRUE} ELSE BOOLEAN)
          /\ fRunning \in BOOLEAN
          /\ fNext = k + 1
    /\ ScrapeIdle
    /\ ExtractIdle
    /\ TwoIdle
    /\ content = <<>>
    /\ link = FALSE
    /\ name = NoName

\* ------------------------------------------------------------ variable groups
envVars   == <<url, cwd, summary>>
storeVars == <<isdir, files>>
fetchVars == <<fRunning, fNext>>
histVars  == <<path, launches, purges, stalled, converged, polls>>

Raise(kind, line) == pc' = "raised" /\ err' = <<kind, line>>

SetPath(p) == path' = [path EXCEPT ![depth + 1] = p]

\* a scrape call is in progress
Scraping == pc \notin {"idle", "done", "raised"}

\* ------------------------------------------------------- the crawler process
\* The crawler writes its next page; os.makedirs of the folder comes with it.
FetcherWrite ==
    /\ Scraping
    /\ fRunning
    /\ fNext <= MaxPage
    /\ isdir' = TRUE
    /\ files' = files \cup {fNext}
    /\ fNext' = fNext + 1
    /\ UNCHANGED <<envVars, asin, fRunning, pc, depth, n_reviews, delete, retries,
                   last_page, reviews, expected_pages, new_files, old_count, pages,
                   delRet, err, histVars>>
    /\ UNCHANGED <<extractVars, twoVars>>

\* The crawler finishes or dies.
FetcherStop ==
    /\ Scraping
    /\ fRunning
    /\ fRunning' = FALSE
    /\ UNCHANGED <<envVars, asin, storeVars, fNext, pc, depth, n_reviews, delete,
                   retries, last_page, reviews, expected_pages, new_files, old_count,
                   pages, delRet, err, histVars>>
    /\ UNCHANGED <<extractVars, twoVars>>

\* ------------------------------------------------------------ scrape (91-173)
\* scrape(n_reviews, delete) called by the user of the Loader: retries = 0
Call ==
    /\ pc = "idle"
    /\ \E n \in NReviewsChoices, d \in BOOLEAN :
          /\ n_reviews' = n
          /\ delete' = d
    /\ retries' = 0
    /\ depth' = 0
    /\ pc' = "L105"
    /\ UNCHANGED <<envVars, asin, storeVars, fetchVars, last_page, reviews,
                   expected_pages, new_files, old_count, pages, delRet, err, histVars>>
    /\ UNCHANGED <<extractVars, twoVars>>

\* lines 104-107
GetId ==
    /\ pc = "L105"
    /\ IF GetIdRaises(url)
       THEN /\ Raise("RuntimeError: Cannot find asin", 107)
            /\ asin' = asin
       ELSE /\ asin' = GetIdValue(url)
            /\ pc' = "L111"
            /\ err' = err
    /\ UNCHANGED <<envVars, storeVars, fetchVars, depth, n_reviews, delete, retries,
                   last_page, reviews, expected_pages, new_files, old_count, pages,
                   delRet, histVars>>
    /\ UNCHANGED <<extractVars, twoVars>>

\* lines 111-112
DeleteCheck ==
    /\ pc = "L111"
    /\ IF delete
       THEN pc' = "L66" /\ delRet' = 114
       ELSE pc' = "L114" /\ delRet' = delRet
    /\ UNCHANGED <<envVars, asin, storeVars, fetchVars, depth, n_reviews, delete,
                   retries, last_page, reviews, expected_pages, new_files, old_count,
                   pages, err, histVars>>
    /\ UNCHANGED <<extractVars, twoVars>>

\* _delete, line 66: os.listdir(path) is outside the try blocks
DeleteListdir ==
    /\ pc = "L66"
    /\ IF ~isdir
       THEN /\ Raise("OSError", 66)
            /\ pages' = pages
       ELSE /\ pages' = files
            /\ pc' = "L69"
            /\ err' = err
    /\ UNCHANGED <<envVars, asin, storeVars, fetchVars, depth, n_reviews, delete,
                   retries, last_page, reviews, expected_pages, new_files, old_count,
                   delRet, histVars>>
    /\ UNCHANGED <<extractVars, twoVars>>

\* _delete, lines 68-72: os.remove of every listed page
DeleteRemove ==
    /\ pc = "L69"
    /\ files' = files \ pages
    /\ pc' = "L75"
    /\ UNCHANGED <<envVars, asin, isdir, fetchVars, depth, n_reviews, delete, retries,
                   last_page, reviews, expected_pages, new_files, old_count, pages,
                   delRet, err, histVars>>
    /\ UNCHANGED <<extractVars, twoVars>>

\* os.rmdir(path) removes an empty folder only; its failure is swallowed (76-77)
Rmdir == IF files = {} THEN FALSE ELSE isdir

\* _delete, lines 74-77, and the return to line 114 or to the raise of line 173
DeleteRmdir ==
    /\ pc = "L75"
    /\ isdir' = Rmdir
    /\ purges' = purges + 1
    /\ IF delRet = 173
       THEN Raise("RuntimeError: Scraping Failed!", 173)
       ELSE pc' = "L114" /\ err' = err
    /\ UNCHANGED <<envVars, asin, files, fetchVars, depth, n_reviews, delete, retries,
                   last_page, reviews, expected_pages, new_files, old_count, pages,
                   delRet, path, launches, stalled, converged, polls>>
    /\ UNCHANGED <<extractVars, twoVars>>

\* lines 114-121
CrawlerCheck ==
    /\ pc = "L114"
    /\ CASE cwd \in {"cwd", "scripts"} -> pc' = "L123" /\ err' = err
         [] cwd = "absent"    -> Raise("RuntimeError: Put amazon_crawler.py", 119)
         [] cwd = "noscripts" -> Raise("OSError", 116)
    /\ UNCHANGED <<envVars, asin, storeVars, fetchVars, depth, n_reviews, delete,
                   retries, last_page, reviews, expected_pages, new_files, old_count,
                   pages, delRet, histVars>>
    /\ UNCHANGED <<extractVars, twoVars>>

\* line 123, and line 135 on the else branch
IsDir ==
    /\ pc = "L123"
    /\ IF ~isdir
       THEN /\ pc' = "L128"
            /\ SetPath("fresh")
            /\ new_files' = new_files
       ELSE /\ pc' = "L138"
            /\ SetPath("resume")
            /\ new_files' = TRUE
    /\ UNCHANGED <<envVars, asin, storeVars, fetchVars, depth, n_reviews, delete,
                   retries, last_page, reviews, expected_pages, old_count, pages,
                   delRet, err, launches, purges, stalled, converged, polls>>
    /\ UNCHANGED <<extractVars, twoVars>>

\* lines 128-129: os.system runs the crawler, which has written pages 1..k when
\* the call returns (k = 0: none, with or without the folder) and may go on
\* writing afterwards.
Launch ==
    /\ pc = "L128"
    /\ \E k \in 0..MaxPage, mk \in BOOLEAN, bg \in BOOLEAN :
          /\ files' = files \cup 1..k
          /\ isdir' = (isdir \/ k > 0 \/ mk)
          /\ fRunning' = (bg /\ k < MaxPage)
          /\ fNext' = k + 1
    /\ launches' = launches + 1
    /\ pc' = "L130"
    /\ UNCHANGED <<envVars, asin, depth, n_reviews, delete, retries, last_page,
                   reviews, expected_pages, new_files, old_count, pages, delRet, err,
                   path, purges, stalled, converged, polls>>
    /\ UNCHANGED <<extractVars, twoVars>>

\* line 130: os.listdir raises OSError, which `except NameError` does not catch
CountFresh ==
    /\ pc = "L130"
    /\ IF ~isdir
       THEN /\ Raise("OSError", 130)
            /\ last_page' = last_page
       ELSE /\ last_page' = HtmlCount
            /\ pc' = "L163"
            /\ err' = err
    /\ UNCHANGED <<envVars, asin, storeVars, fetchVars, depth, n_reviews, delete,
                   retries, reviews, expected_pages, new_files, old_count, pages,
                   delRet, histVars>>
    /\ UNCHANGED <<extractVars, twoVars>>

\* lines 138-144
OpenPage1 ==
    /\ pc = "L138"
    /\ IF 1 \notin files
         THEN /\ Raise("IOError", 138)
              /\ UNCHANGED <<reviews, expected_pages>>
       ELSE IF summary = NoTag
         THEN /\ Raise("AttributeError", 142)
              /\ UNCHANGED <<reviews, expected_pages>>
       ELSE IF IntRaises(StripCommas(summary))
         THEN /\ Raise("ValueError", 142)
              /\ UNCHANGED <<reviews, expected_pages>>
       ELSE /\ reviews' = IntOf(StripCommas(summary))
            /\ expected_pages' = ExpectedPages(n_reviews, reviews')
            /\ pc' = "L146"
            /\ err' = err
    /\ UNCHANGED <<envVars, asin, storeVars, fetchVars, depth, n_reviews, delete,
                   retries, last_page, new_files, old_count, pages, delRet, histVars>>
    /\ UNCHANGED <<extractVars, twoVars>>

\* line 146
CountResume ==
    /\ pc = "L146"
    /\ IF ~isdir
       THEN /\ Raise("OSError", 146)
            /\ last_page' = last_page
       ELSE /\ last_page' = HtmlCount
            /\ pc' = "L148"
            /\ err' = err
    /\ UNCHANGED <<envVars, asin, storeVars, fetchVars, depth, n_reviews, delete,
                   retries, reviews, expected_pages, new_files, old_count, pages,
                   delRet, histVars>>
    /\ UNCHANGED <<extractVars, twoVars>>

\* line 148: the loop condition
LoopCondition == last_page # expected_pages /\ new_files

PollTest ==
    /\ pc = "L148"
    /\ IF LoopCondition
       THEN pc' = "L150" /\ converged' = converged
       ELSE /\ pc' = "L158"
            /\ converged' = (converged \/ (depth = 0 /\ last_page = expected_pages))
    /\ UNCHANGED <<envVars, asin, storeVars, fetchVars, depth, n_reviews, delete,
                   retries, last_page, reviews, expected_pages, new_files, old_count,
                   pages, delRet, err, path, launches, purges, stalled, polls>>
    /\ UNCHANGED <<extractVars, twoVars>>

\* a stall that is never noticed
NoProgress_Never(old, new) == FALSE

\* line 154: no new file since the last count
NoProgress(old, new) == old = new

\* lines 150-156: the sleep is over, the folder is counted again
PollSleep ==
    /\ pc = "L150"
    /\ IF ~isdir
       THEN /\ Raise("OSError", 152)
            /\ UNCHANGED <<old_count, last_page, new_files, stalled, polls>>
       ELSE /\ polls' = polls + 1
            /\ old_count' = last_page
            /\ last_page' = HtmlCount
            /\ new_files' = IF NoProgress(old_count', last_page') THEN FALSE ELSE new_files
            /\ stalled' = (stalled \/ (depth = 0 /\ ~new_files'))
            /\ pc' = "L148"
            /\ err' = err
    /\ UNCHANGED <<envVars, asin, storeVars, fetchVars, depth, n_reviews, delete,
                   retries, reviews, expected_pages, pages, delRet, path, launches,
                   purges, converged>>
    /\ UNCHANGED <<extractVars, twoVars>>

\* line 161: the value that asks for a rescrape
Sentinel == 1

\* lines 158-161 without the assignment of line 161
StallCheck_NoSentinel ==
    /\ pc = "L158"
    /\ pc' = "L163"
    /\ UNCHANGED <<envVars, asin, storeVars, fetchVars, depth, n_reviews, delete,
                   retries, last_page, reviews, expected_pages, new_files, old_count,
                   pages, delRet, err, histVars>>
    /\ UNCHANGED <<extractVars, twoVars>>

\* lines 158-161
StallCheck ==
    /\ pc = "L158"
    /\ last_page' = IF last_page # expected_pages /\ ~new_files THEN Sentinel ELSE last_page
    /\ pc' = "L163"
    /\ UNCHANGED <<envVars, asin, storeVars, fetchVars, depth, n_reviews, delete,
                   retries, reviews, expected_pages, new_files, old_count, pages,
                   delRet, err, histVars>>
    /\ UNCHANGED <<extractVars, twoVars>>

\* lines 163-164 left out: an invocation with retries > 0 goes on to line 166
RetryReturn_NoReturn ==
    /\ pc = "L163"
    /\ pc' = "L166"
    /\ UNCHANGED <<envVars, asin, storeVars, fetchVars, depth, n_reviews, delete, retries,
                   last_page, reviews, expected_pages, new_files, old_count, pages,
                   delRet, err, histVars>>
    /\ UNCHANGED <<extractVars, twoVars>>

\* lines 163-164: the recursive invocation hands (retries, last_page) to line 168
RetryReturn ==
    /\ pc = "L163"
    /\ IF retries > 0
       THEN depth' = depth - 1
       ELSE depth' = depth
    /\ pc' = "L166"
    /\ UNCHANGED <<envVars, asin, storeVars, fetchVars, n_reviews, delete, retries,
                   last_page, reviews, expected_pages, new_files, old_count, pages,
                   delRet, err, histVars>>
    /\ UNCHANGED <<extractVars, twoVars>>

\* line 166: the retry loop's condition
RetryCondition == last_page = Sentinel /\ retries < MaxRetries

\* lines 166-169: one more retry, scrape(n_reviews, delete=True, retries=retries)
RetryDriver ==
    /\ pc = "L166"
    /\ IF RetryCondition
       THEN /\ retries' = retries + 1
            /\ delete' = TRUE
            /\ depth' = depth + 1
            /\ path' = [path EXCEPT ![2] = "none"]
            /\ pc' = "L105"
            \* the locals of the new invocation are not set yet
            /\ last_page' = 0
            /\ reviews' = 0
            /\ expected_pages' = 0
            /\ new_files' = FALSE
            /\ old_count' = 0
            /\ pages' = {}
            /\ polls' = 0
       ELSE /\ pc' = "L171"
            /\ UNCHANGED <<retries, delete, depth, path, last_page, reviews,
                           expected_pages, new_files, old_count, pages, polls>>
    /\ UNCHANGED <<envVars, asin, storeVars, fetchVars, n_reviews, delRet, err,
                   launches, purges, stalled, converged>>
    /\ UNCHANGED <<extractVars, twoVars>>

\* lines 171-173: give up, or return None
FinalCheck ==
    /\ pc = "L171"
    /\ IF last_page = Sentinel /\ retries = MaxRetries
       THEN pc' = "L66" /\ delRet' = 173
       ELSE pc' = "done" /\ delRet' = delRet
    /\ UNCHANGED <<envVars, asin, storeVars, fetchVars, depth, n_reviews, delete,
                   retries, last_page, reviews, expected_pages, new_files, old_count,
                   pages, err, histVars>>
    /\ UNCHANGED <<extractVars, twoVars>>

Next ==
    \/ FetcherWrite
    \/ FetcherStop
    \/ Call
    \/ GetId
    \/ DeleteCheck
    \/ DeleteListdir
    \/ DeleteRemove
    \/ DeleteRmdir
    \/ CrawlerCheck
    \/ IsDir
    \/ Launch
    \/ CountFresh
    \/ OpenPage1
    \/ CountResume
    \/ PollTest
    \/ PollSleep
    \/ StallCheck
    \/ RetryReturn
    \/ RetryDriver
    \/ FinalCheck

Spec == Init /\ [][Next]_vars

TypeOK ==
    /\ pc \in {"idle", "L105", "L111", "L66", "L69", "L75", "L114", "L123", "L128",
               "L130", "L138", "L146", "L148", "L150", "L158", "L163", "L166", "L171",
               "done", "raised"}
    /\ depth \in 0..1
    /\ retries \in 0..MaxRetries
    /\ files \subseteq 1..MaxPage
    /\ last_page \in 0..MaxPage

\* =========================================================== extract (175-253)
\* Highest page number of the folder extract reads.
MaxExtractPages == 2

\* extract calls made on the same folder.
MaxRuns == 2

\* ---- review blocks: the nodes the block holds (NoNode: the node is missing)
BlockFull      == [rating |-> <<"5", ".", "0">>, review |-> "good",
                   author |-> "ann", headline |-> "great"]
BlockFull2     == [rating |-> <<"1", ".", "0">>, review |-> "bad",
                   author |-> "bob", headline |-> "poor"]
BlockNoAuthor  == [rating |-> <<"4", ".", "0">>, review |-> "fine",
                   author |-> NoNode, headline |-> "ok"]
BlockNoHeadline == [rating |-> <<"3", ".", "0">>, review |-> "so-so",
                    author |-> "cy", headline |-> NoNode]
\* no <i> element
BlockNoRating  == [rating |-> NoNode, review |-> "lost",
                   author |-> "dan", headline |-> "hm"]
\* an <i> element whose text does not start with a digit
BlockBadRating == [rating |-> <<"x">>, review |-> "odd",
                   author |-> "eve", headline |-> "eh"]
\* an <i> element with no text
BlockEmptyRating == [rating |-> <<>>, review |-> "void",
                     author |-> "fay", headline |-> "oh"]
BlockNoReview  == [rating |-> <<"2", ".", "0">>, review |-> NoNode,
                   author |-> "gus", headline |-> "meh"]

\* ---- pages: the sequence of review blocks soup.findAll returns (line 214)
PageChoices ==
    { <<>>,
      <<BlockFull, BlockFull2>>,
      <<BlockNoAuthor>>,
      <<BlockNoHeadline, BlockFull>>,
      <<BlockFull2, BlockNoRating>>,
      <<BlockBadRating>>,
      <<BlockEmptyRating, BlockFull>>,
      <<BlockFull, BlockNoReview, BlockFull2>> }

\* the identifier extract works on
ProductId == GetIdValue(UrlMid)

\* every order os.listdir may list the set S in
Orders(S) ==
    { o \in [1..Cardinality(S) -> S] : \A i, j \in DOMAIN o : i # j => o[i] # o[j] }

DigitChar(d) == <<"0", "1", "2", "3", "4", "5", "6", "7", "8", "9">>[d + 1]

\* "{}".format(i) for i >= 0
RECURSIVE IntToStr(_)
IntToStr(i) ==
    IF i < 10 THEN <<DigitChar(i)>> ELSE IntToStr(i \div 10) \o <<DigitChar(i % 10)>>

\* "{}_{}".format(self.asin, index) (line 222)
MakeId(a, i) == a \o <<"_">> \o IntToStr(i)

\* int(tag.find('i').text[0]) (line 228): the exception it raises, or "ok"
RatingError(b) ==
    IF b.rating = NoNode THEN "AttributeError"
    ELSE IF b.rating = <<>> THEN "IndexError"
    ELSE IF b.rating[1] \notin Digits THEN "ValueError"
    ELSE "ok"

RatingOf(b) == DigitVal(b.rating[1])

\* tag.findAll("span", ...)[0].text (line 229) raises IndexError without the node
ReviewRaises(b) == b.review = NoNode

\* the author taken as found, without the fallback of lines 233-234
AuthorOf_NoDefault(b) == b.author

\* lines 231-238
AuthorOf(b) == IF b.author = NoNode THEN "Anonymous" ELSE b.author
HeadlineOf(b) == IF b.headline = NoNode THEN "No headline" ELSE b.headline

\* lines 243-245
Document(a, i, b) ==
    [asin |-> a, review_idx |-> i, rating |-> RatingOf(b), review |-> b.review,
     author |-> AuthorOf(b), headline |-> HeadlineOf(b)]

\* an update that would drop every other document of the collection
Upsert_Prune(t, id, data) == [k \in {id} |-> data]

\* tab.update_one({'_id': _id}, {'$set': data}, upsert=True) (lines 247-248)
Upsert(t, id, data) ==
    [k \in (DOMAIN t) \cup {id} |-> IF k = id THEN data ELSE t[k]]

XRaise(kind, line) == xpc' = "raised" /\ xerr' = <<kind, line>>

scrapeRest == <<url, cwd, summary, fRunning, fNext, pc, depth, n_reviews, delete,
                retries, last_page, reviews, expected_pages, new_files, old_count,
                pages, delRet, err, path, launches, purges, stalled, converged, polls>>

\* extract(asin) called by the user of the Loader; lines 188-194
ExtractCall ==
    /\ xpc \in {"idle", "done", "raised"}
    /\ run < MaxRuns
    /\ run' = run + 1
    /\ \E a \in {None, "given"} :
          asin' = IF a # None THEN ProductId ELSE asin
    /\ index' = 0
    /\ xpc' = "L196"
    /\ xerr' = NoErr
    /\ emitted' = <<>>
    /\ emitted1' = emitted
    /\ tab1' = tab
    /\ xpc1' = xpc
    /\ listing' = <<>>
    /\ pi' = 0
    /\ ti' = 0
    /\ x_ratings' = <<>>
    /\ x_reviews' = <<>>
    /\ UNCHANGED <<twoVars, scrapeRest, isdir, files, content, link, tab, name, self_ratings,
                   self_reviews>>

\* lines 196-205
ResolveName ==
    /\ xpc = "L196"
    /\ IF name # NoName
         THEN xpc' = "L207" /\ UNCHANGED <<name, xerr>>
       ELSE IF 1 \notin files
         THEN XRaise("IOError", 199) /\ name' = name
       ELSE IF ~link
         THEN XRaise("RuntimeError: Invalid HTML code", 205) /\ name' = name
       ELSE /\ name' = "from page 1"
            /\ xpc' = "L207"
            /\ xerr' = xerr
    /\ UNCHANGED <<twoVars, scrapeRest, asin, isdir, files, content, link, tab, self_ratings,
                   self_reviews, index, listing, pi, ti, x_ratings, x_reviews, run,
                   emitted, emitted1, tab1, xpc1>>

\* lines 207-209: os.listdir gives the pages in an arbitrary order
ListPages ==
    /\ xpc = "L207"
    /\ IF ~isdir
       THEN /\ XRaise("OSError", 208)
            /\ UNCHANGED <<listing, pi, x_ratings, x_reviews>>
       ELSE /\ listing' \in Orders(files)
            /\ pi' = 1
            /\ x_ratings' = <<>>
            /\ x_reviews' = <<>>
            /\ xpc' = "L211"
            /\ xerr' = xerr
    /\ UNCHANGED <<twoVars, scrapeRest, asin, isdir, files, content, link, tab, name,
                   self_ratings, self_reviews, index, ti, run, emitted, emitted1,
                   tab1, xpc1>>

\* soup.findAll("div", {"class": "a-section review"}) of the current page
Tags == content[listing[pi]]

\* lines 211-219 with the index starting again at every page
NextPage_ResetIndex ==
    /\ xpc = "L211"
    /\ IF pi > Len(listing)
         THEN xpc' = "L252" /\ UNCHANGED <<pi, ti, index>>
       ELSE IF Tags = <<>>
         THEN xpc' = "L211" /\ pi' = pi + 1 /\ ti' = ti /\ index' = index
       ELSE xpc' = "L221" /\ pi' = pi /\ ti' = 1 /\ index' = 0
    /\ UNCHANGED <<twoVars, scrapeRest, asin, isdir, files, content, link, tab, name,
                   self_ratings, self_reviews, listing, x_ratings, x_reviews,
                   xerr, run, emitted, emitted1, tab1, xpc1>>

\* lines 211-219 with `break` in place of `continue` at line 219
NextPage_BreakOnEmpty ==
    /\ xpc = "L211"
    /\ IF pi > Len(listing)
         THEN xpc' = "L252" /\ UNCHANGED <<pi, ti>>
       ELSE IF Tags = <<>>
         THEN xpc' = "L252" /\ pi' = pi /\ ti' = ti
       ELSE xpc' = "L221" /\ pi' = pi /\ ti' = 1
    /\ UNCHANGED <<twoVars, scrapeRest, asin, isdir, files, content, link, tab, name,
                   self_ratings, self_reviews, index, listing, x_ratings, x_reviews,
                   xerr, run, emitted, emitted1, tab1, xpc1>>

\* lines 211-219: the next page, skipped when it has no review block;
\* line 252 when the pages are exhausted
NextPage ==
    /\ xpc = "L211"
    /\ IF pi > Len(listing)
         THEN xpc' = "L252" /\ UNCHANGED <<pi, ti>>
       ELSE IF Tags = <<>>
         THEN xpc' = "L211" /\ pi' = pi + 1 /\ ti' = ti
       ELSE xpc' = "L221" /\ pi' = pi /\ ti' = 1
    /\ UNCHANGED <<twoVars, scrapeRest, asin, isdir, files, content, link, tab, name,
                   self_ratings, self_reviews, index, listing, x_ratings, x_reviews,
                   xerr, run, emitted, emitted1, tab1, xpc1>>

\* the for loop of line 221 goes to the next block, or to the next page
Advance ==
    IF ti < Len(Tags)
    THEN xpc' = "L221" /\ ti' = ti + 1 /\ pi' = pi
    ELSE xpc' = "L211" /\ ti' = ti /\ pi' = pi + 1

\* lines 221-250 with a block that lacks a mandatory field skipped
ReviewBlock_SkipBad ==
    /\ xpc = "L221"
    /\ LET b == Tags[ti]
       IN  IF RatingError(b) # "ok" \/ ReviewRaises(b)
           THEN /\ Advance
                /\ UNCHANGED <<x_ratings, x_reviews, tab, emitted, index, xerr>>
           ELSE /\ x_ratings' = Append(x_ratings, RatingOf(b))
                /\ x_reviews' = Append(x_reviews, b.review)
                /\ tab' = Upsert(tab, MakeId(asin, index), Document(asin, index, b))
                /\ emitted' = Append(emitted, <<MakeId(asin, index), Document(asin, index, b)>>)
                /\ index' = index + 1
                /\ xerr' = xerr
                /\ Advance
    /\ UNCHANGED <<twoVars, scrapeRest, asin, isdir, files, content, link, name, self_ratings,
                   self_reviews, listing, run, emitted1, tab1, xpc1>>

\* lines 221-250 with the upserts of the call undone when a block raises
ReviewBlock_Rollback ==
    /\ xpc = "L221"
    /\ LET b == Tags[ti]
       IN  IF RatingError(b) # "ok" \/ ReviewRaises(b)
           THEN /\ XRaise(IF RatingError(b) # "ok" THEN RatingError(b) ELSE "IndexError",
                          IF RatingError(b) # "ok" THEN 228 ELSE 229)
                /\ tab' = tab1
                /\ UNCHANGED <<x_ratings, x_reviews, emitted, index, pi, ti>>
           ELSE /\ x_ratings' = Append(x_ratings, RatingOf(b))
                /\ x_reviews' = Append(x_reviews, b.review)
                /\ tab' = Upsert(tab, MakeId(asin, index), Document(asin, index, b))
                /\ emitted' = Append(emitted, <<MakeId(asin, index), Document(asin, index, b)>>)
                /\ index' = index + 1
                /\ xerr' = xerr
                /\ Advance
    /\ UNCHANGED <<twoVars, scrapeRest, asin, isdir, files, content, link, name, self_ratings,
                   self_reviews, listing, run, emitted1, tab1, xpc1>>

\* lines 221-250: one review block
ReviewBlock ==
    /\ xpc = "L221"
    /\ LET b == Tags[ti]
       IN  IF RatingError(b) # "ok"
             THEN /\ XRaise(RatingError(b), 228)
                  /\ UNCHANGED <<x_ratings, x_reviews, tab, emitted, index, pi, ti>>
           ELSE IF ReviewRaises(b)
             THEN /\ XRaise("IndexError", 229)
                  /\ UNCHANGED <<x_ratings, x_reviews, tab, emitted, index, pi, ti>>
           ELSE /\ x_ratings' = Append(x_ratings, RatingOf(b))
                /\ x_reviews' = Append(x_reviews, b.review)
                /\ tab' = Upsert(tab, MakeId(asin, index), Document(asin, index, b))
                /\ emitted' = Append(emitted, <<MakeId(asin, index), Document(asin, index, b)>>)
                /\ index' = index + 1
                /\ xerr' = xerr
                /\ Advance
    /\ UNCHANGED <<twoVars, scrapeRest, asin, isdir, files, content, link, name, self_ratings,
                   self_reviews, listing, run, emitted1, tab1, xpc1>>

\* lines 252-253
Finish ==
    /\ xpc = "L252"
    /\ self_ratings' = x_ratings
    /\ self_reviews' = x_reviews
    /\ xpc' = "done"
    /\ UNCHANGED <<twoVars, scrapeRest, asin, isdir, files, content, link, tab, name, index,
                   listing, pi, ti, x_ratings, x_reviews, xerr, run, emitted,
                   emitted1, tab1, xpc1>>

\* A Loader whose product was scraped earlier: the folder holds pages 1..k, or
\* does not exist.
InitExtract ==
    /\ url = UrlMid
    /\ asin = ProductId
    /\ cwd = "cwd"
    /\ summary = NoTag
    /\ fRunning = FALSE
    /\ fNext = 1
    /\ ScrapeIdle
    /\ ExtractIdle
    /\ TwoIdle
    /\ \E k \in 0..MaxExtractPages :
          /\ files = 1..k
          /\ isdir \in (IF k > 0 THEN {TRUE} ELSE BOOLEAN)
          /\ content \in [1..k -> PageChoices]
    /\ link \in BOOLEAN
    /\ name \in {NoName, "given"}

NextExtract ==
    \/ ExtractCall
    \/ ResolveName
    \/ ListPages
    \/ NextPage
    \/ ReviewBlock
    \/ Finish

SpecExtract == InitExtract /\ [][NextExtract]_vars

\* ---- folders of up to MaxListedPages pages whose blocks are all well-formed
MaxListedPages == 3

GoodPageChoices == { <<>>, <<BlockFull>>, <<BlockFull2, BlockNoAuthor>> }

InitPages ==
    /\ url = UrlMid
    /\ asin = ProductId
    /\ cwd = "cwd"
    /\ summary = NoTag
    /\ fRunning = FALSE
    /\ fNext = 1
    /\ ScrapeIdle
    /\ ExtractIdle
    /\ TwoIdle
    /\ \E k \in 0..MaxListedPages :
          /\ files = 1..k
          /\ isdir \in (IF k > 0 THEN {TRUE} ELSE BOOLEAN)
          /\ content \in [1..k -> GoodPageChoices]
    /\ link \in BOOLEAN
    /\ name \in {NoName, "given"}

SpecPages == InitPages /\ [][NextExtract]_vars

\* ---- a later scrape leaves fewer pages in the folder (purge of lines 61-77,
\* then a crawl that saves pages 1..k, lines 123-130) between two extract calls
Shrink ==
    /\ xpc \in {"done", "raised"}
    /\ run < MaxRuns
    /\ \E k \in 0..(Cardinality(files) - 1) :
          /\ files' = 1..k
          /\ isdir' \in (IF k > 0 THEN {TRUE} ELSE BOOLEAN)
    /\ UNCHANGED <<twoVars, scrapeRest, asin, content, link, tab, name, self_ratings, self_reviews,
                   xpc, index, listing, pi, ti, x_ratings, x_reviews, xerr, run,
                   emitted, emitted1, tab1, xpc1>>

NextResync ==
    \/ NextExtract
    \/ Shrink

SpecResync == InitPages /\ [][NextResync]_vars

\* ---- scrape over the URL shapes of _get_id, one crawler location and one
\* summary text
IdUrls == {UrlMid, UrlEnd, UrlTail, UrlNone}

InitId ==
    /\ url \in IdUrls
    /\ asin = <<>>
    /\ cwd = "cwd"
    /\ summary = <<"2", "0">>
    /\ \E k \in 0..MaxPage :
          /\ files = 1..k
          /\ isdir \in (IF k > 0 THEN {TRUE} ELSE BOOLEAN)
          /\ fRunning \in BOOLEAN
          /\ fNext = k + 1
    /\ ScrapeIdle
    /\ ExtractIdle
    /\ TwoIdle
    /\ content = <<>>
    /\ link = FALSE
    /\ name = NoName

SpecId == InitId /\ [][Next]_vars

\* ---- two Loaders, one per product, on the same disk and the same collection
\* review_data. Each store operation of scrape and extract is one step; the
\* polls and the retry count are left out (a retry is a purge, a launch and a
\* count again), and every page holds one well-formed review block.
MaxSharedPages == 2

Folder(L) == FolderOf(TwoAsins[L])

extractRest == <<content, link, name, self_ratings, self_reviews, xpc, index, listing,
                 pi, ti, x_ratings, x_reviews, xerr, run, emitted, emitted1, tab1, xpc1>>

\* scrape(...) called on Loader L; lines 104-109
TwoCall(L) ==
    /\ l_pc[L] \in {"idle", "done", "raised"}
    /\ l_pc' = [l_pc EXCEPT ![L] = "L111"]
    /\ UNCHANGED <<scrapeVars, extractRest, tab, disk, l_last_page, l_pages, l_index>>

\* lines 111-112 with _delete (61-77); delete = True in a retry (line 167)
TwoDelete(L) ==
    /\ l_pc[L] \in {"L111", "L167"}
    /\ \E d \in (IF l_pc[L] = "L167" THEN {TRUE} ELSE BOOLEAN) :
          IF d /\ ~disk[Folder(L)].isdir
            THEN /\ l_pc' = [l_pc EXCEPT ![L] = "raised"]
                 /\ disk' = disk
          ELSE IF d
            THEN /\ l_pc' = [l_pc EXCEPT ![L] = "L123"]
                 /\ disk' = [disk EXCEPT ![Folder(L)] = NoFolder]
          ELSE /\ l_pc' = [l_pc EXCEPT ![L] = "L123"]
               /\ disk' = disk
    /\ UNCHANGED <<scrapeVars, extractRest, tab, l_last_page, l_pages, l_index>>

\* line 123: launch the crawler for self.asin, or resume
TwoIsDir(L) ==
    /\ l_pc[L] = "L123"
    /\ l_pc' = [l_pc EXCEPT ![L] = IF disk[Folder(L)].isdir THEN "L146" ELSE "L128"]
    /\ UNCHANGED <<scrapeVars, extractRest, tab, disk, l_last_page, l_pages, l_index>>

\* line 128: the crawler, given self.asin, saves its next page under the folder
TwoCrawlerWrite(L) ==
    /\ l_pc[L] = "L128"
    /\ Cardinality(disk[Folder(L)].files) < MaxSharedPages
    /\ disk' = [disk EXCEPT ![Folder(L)] =
                  [isdir |-> TRUE, files |-> @.files \cup {Cardinality(@.files) + 1}]]
    /\ UNCHANGED <<scrapeVars, extractRest, tab, l_pc, l_last_page, l_pages, l_index>>

\* line 128: os.system returns
TwoCrawlerExit(L) ==
    /\ l_pc[L] = "L128"
    /\ l_pc' = [l_pc EXCEPT ![L] = "L130"]
    /\ UNCHANGED <<scrapeVars, extractRest, tab, disk, l_last_page, l_pages, l_index>>

\* _get_html_count(folder), lines 130 and 146
TwoCount(L) ==
    /\ l_pc[L] \in {"L130", "L146"}
    /\ IF ~disk[Folder(L)].isdir
       THEN /\ l_pc' = [l_pc EXCEPT ![L] = "raised"]
            /\ l_last_page' = l_last_page
       ELSE /\ l_pc' = [l_pc EXCEPT ![L] = "L163"]
            /\ l_last_page' = [l_last_page EXCEPT ![L] = Cardinality(disk[Folder(L)].files)]
    /\ UNCHANGED <<scrapeVars, extractRest, tab, disk, l_pages, l_index>>

\* lines 166-169: retry, or return and go on to extract
TwoReturn(L) ==
    /\ l_pc[L] = "L163"
    /\ l_pc' = [l_pc EXCEPT ![L] = IF l_last_page[L] = Sentinel THEN "L167" ELSE "L208"]
    /\ l_last_page' = [l_last_page EXCEPT ![L] = 0]
    /\ UNCHANGED <<scrapeVars, extractRest, tab, disk, l_pages, l_index>>

\* lines 171-173: the purge before 'Scraping Failed!'
TwoGiveUp(L) ==
    /\ l_pc[L] = "L167"
    /\ l_pc' = [l_pc EXCEPT ![L] = "raised"]
    /\ disk' = IF disk[Folder(L)].isdir THEN [disk EXCEPT ![Folder(L)] = NoFolder] ELSE disk
    /\ UNCHANGED <<scrapeVars, extractRest, tab, l_last_page, l_pages, l_index>>

\* lines 207-209
TwoListPages(L) ==
    /\ l_pc[L] = "L208"
    /\ IF ~disk[Folder(L)].isdir
       THEN /\ l_pc' = [l_pc EXCEPT ![L] = "raised"]
            /\ l_pages' = l_pages
       ELSE /\ l_pc' = [l_pc EXCEPT ![L] = "L211"]
            /\ l_pages' = [l_pages EXCEPT ![L] = Cardinality(disk[Folder(L)].files)]
    /\ l_index' = [l_index EXCEPT ![L] = 0]
    /\ UNCHANGED <<scrapeVars, extractRest, tab, disk, l_last_page>>

\* lines 240-250 for the block of the next page, or line 252 after the last
TwoUpsert(L) ==
    /\ l_pc[L] = "L211"
    /\ IF l_index[L] < l_pages[L]
       THEN /\ tab' = Upsert(tab, MakeId(TwoAsins[L], l_index[L]),
                             Document(TwoAsins[L], l_index[L], BlockFull))
            /\ l_index' = [l_index EXCEPT ![L] = @ + 1]
            /\ UNCHANGED <<l_pc, l_pages>>
       ELSE /\ l_pc' = [l_pc EXCEPT ![L] = "done"]
            /\ l_pages' = [l_pages EXCEPT ![L] = 0]
            /\ l_index' = [l_index EXCEPT ![L] = 0]
            /\ tab' = tab
    /\ UNCHANGED <<scrapeVars, extractRest, disk, l_last_page>>

\* any step of Loader L, its crawler included
TwoStep(L) ==
    \/ TwoCall(L)
    \/ TwoDelete(L)
    \/ TwoIsDir(L)
    \/ TwoCrawlerWrite(L)
    \/ TwoCrawlerExit(L)
    \/ TwoCount(L)
    \/ TwoReturn(L)
    \/ TwoGiveUp(L)
    \/ TwoListPages(L)
    \/ TwoUpsert(L)

FolderChoices ==
    { NoFolder } \cup { [isdir |-> TRUE, files |-> 1..k] : k \in 0..MaxSharedPages }

InitTwo ==
    /\ url = UrlMid
    /\ asin = ProductId
    /\ cwd = "cwd"
    /\ summary = NoTag
    /\ isdir = FALSE
    /\ files = {}
    /\ fRunning = FALSE
    /\ fNext = 1
    /\ ScrapeIdle
    /\ ExtractIdle
    /\ content = <<>>
    /\ link = FALSE
    /\ name = NoName
    /\ disk \in [TwoFolders -> FolderChoices]
    /\ l_pc = [L \in Loaders |-> "idle"]
    /\ l_last_page = [L \in Loaders |-> 0]
    /\ l_pages = [L \in Loaders |-> 0]
    /\ l_index = [L \in Loaders |-> 0]

NextTwo ==
    \/ \E L \in Loaders : TwoCall(L)
    \/ \E L \in Loaders : TwoDelete(L)
    \/ \E L \in Loaders : TwoIsDir(L)
    \/ \E L \in Loaders : TwoCrawlerWrite(L)
    \/ \E L \in Loaders : TwoCrawlerExit(L)
    \/ \E L \in Loaders : TwoCount(L)
    \/ \E L \in Loaders : TwoReturn(L)
    \/ \E L \in Loaders : TwoGiveUp(L)
    \/ \E L \in Loaders : TwoListPages(L)
    \/ \E L \in Loaders : TwoUpsert(L)

SpecTwo == InitTwo /\ [][NextTwo]_vars

\* ---- what the folder holds
RECURSIVE BlocksOf(_)
\* the blocks of the pages of the listing o, in that order
BlocksOf(o) ==
    IF o = <<>> THEN <<>> ELSE content[Head(o)] \o BlocksOf(Tail(o))

MandatoryOk(b) == RatingError(b) = "ok" /\ ~ReviewRaises(b)

\* some block of some page lacks a parseable rating or its review text
SomeBlockBad ==
    \E p \in files : \E i \in 1..Len(content[p]) : ~MandatoryOk(content[p][i])

\* ===================================================================== claims
ScrapeFailed == "RuntimeError: Scraping Failed!"

\* the summary field of page 1 is a number int() accepts
SummaryOk == summary # NoTag /\ ~IntRaises(StripCommas(summary))

\* k = ceil(n / 10): the least k with 10 k >= n
IsCeil(k, n) == PageSize * k >= n /\ PageSize * (k - 1) < n

\* e = min(ceil(n / 10), ceil(r / 10)): e is one of the two ceilings and does not
\* exceed the other
IsMinOfCeils(e, n, r) ==
    \/ IsCeil(e, n) /\ PageSize * (e - 1) < r
    \/ IsCeil(e, r) /\ PageSize * (e - 1) < n

\* C1: a top-level scrape whose crawler is reachable makes at most 5 retries and
\* then either returns or raises "Scraping Failed!": no other exception leaves
\* it from the fetch and convergence logic (lines 123-173).
C1_ReturnsOrScrapeFailed ==
    /\ retries <= MaxRetries
    /\ (pc = "raised" /\ err[2] >= 123) => err[1] = ScrapeFailed

\* C2: when scrape gives up with "Scraping Failed!", the product's folder and
\* its pages are gone at the moment the exception leaves scrape.
C2_NoPartitionAfterGivingUp ==
    [][(err[1] # ScrapeFailed /\ err'[1] = ScrapeFailed) => (~isdir' /\ files' = {})]_vars

\* C3 as stated: whenever a top-level scrape returns without raising, the page
\* count equals expectedPages computed from n_reviews and the advertised total.
C3_ReturnImpliesConverged ==
    (pc = "done" /\ SummaryOk)
        => last_page = ExpectedPages(n_reviews, IntOf(StripCommas(summary)))

\* C3 amended: a top-level scrape that returns without having launched the
\* crawler (resume path throughout) returns with an observed page count equal
\* to expected_pages, and never with the count 1.
C3_ResumeReturnImpliesConverged ==
    (pc = "done" /\ launches = 0)
        => /\ last_page = expected_pages
           /\ last_page # Sentinel
           /\ path[1] = "resume"

C3_Witness ==
    /\ pc = "done"
    /\ launches = 0
    /\ retries = 0
    /\ path[1] = "resume"
    /\ last_page = 3
    /\ expected_pages = 3

\* C5: on the resume path expected_pages is min(ceil(n_reviews / 10),
\* ceil(reviews / 10)) where reviews is the total printed on page 1 (300 and
\* "45" give 5), the poll loop is left only when the observed count equals it or
\* a stall was declared, and it goes on polling otherwise.
C5_ExpectedPagesOnResume ==
    /\ pc \in {"L146", "L148", "L150", "L158"}
          => /\ IsMinOfCeils(expected_pages, n_reviews, reviews)
             /\ summary = <<"8">> => reviews = 8
             /\ summary = <<"2", "0">> => reviews = 20
             /\ summary = <<"4", "5">> => reviews = 45
             /\ summary = <<"1", ",", "2", "3", "4">> => reviews = 1234
             /\ (n_reviews = 300 /\ summary = <<"4", "5">>) => expected_pages = 5
    /\ pc = "L158" => (last_page = expected_pages \/ ~new_files)
    /\ pc = "L150" => (last_page # expected_pages /\ new_files)

C5_Witness ==
    /\ pc = "L150"
    /\ polls = 1
    /\ n_reviews = 300
    /\ summary = <<"4", "5">>
    /\ expected_pages = 5
    /\ last_page = 3

\* C6: once the top-level invocation has left the poll loop with the observed
\* count equal to expected_pages, scrape neither purges the folder nor launches
\* the crawler nor raises.
C6_ConvergedMeansNoRetry ==
    [][converged => (purges' = purges /\ launches' = launches /\ retries' = retries
                     /\ pc' # "raised")]_vars

\* C7: in the top-level invocation, a recount equal to the previous count
\* declares the stall at once (new_files = False after that single interval);
\* the invocation then holds the sentinel 1 as its page count, never polls
\* again, and enters the retry driver, which calls scrape with delete = True:
\* the purge runs before anything else of the retry, and the crawler is
\* launched again only after a purge.
C7_StallTriggersRetry ==
    /\ (pc = "L148" /\ polls > 0 /\ old_count = last_page) => ~new_files
    /\ (depth = 0 /\ stalled) => pc \notin {"L146", "L150"}
    /\ (depth = 0 /\ stalled /\ retries = 0 /\ pc \in {"L163", "L166"})
          => last_page = Sentinel
    /\ (stalled /\ (depth = 1 \/ pc \in {"L171", "done"}))
          => (retries >= 1 /\ delete)
    /\ (stalled /\ depth = 1 /\ pc \notin {"L105", "L111", "L66", "L69", "L75", "raised"})
          => purges >= retries
    /\ (stalled /\ launches > 0) => purges >= 1

C7_Witness ==
    /\ depth = 0
    /\ pc = "L163"
    /\ stalled
    /\ polls = 1
    /\ old_count = 3
    /\ expected_pages = 5
    /\ last_page = Sentinel

\* C8: the purge of a top-level scrape with delete = True that found pages in
\* the folder leaves neither a page nor the folder when it returns to line 114.
C8_ForceDeleteRemovesPartition ==
    [][(pc = "L75" /\ depth = 0 /\ retries = 0 /\ delRet = 114 /\ pages # {})
          => (~isdir' /\ files' = {})]_vars

\* C9: the purge of a product without a folder does not fail.
C9_PurgeOfNothingIsNoop ==
    ~(pc = "raised" /\ err = <<"OSError", 66>>)

\* C4: a second extract on an unchanged folder, both calls returning, emits the
\* same documents under the same _id values as the first and leaves the
\* collection as the first left it, whatever order os.listdir gave in each.
C4_ExtractTwiceIsIdempotent ==
    (run = 2 /\ xpc = "done" /\ xpc1 = "done")
        => (emitted = emitted1 /\ tab = tab1)

\* C10: extract returns only if every review block of every page has a
\* parseable rating and a review text, and then it has emitted one record per
\* block; with a block that lacks one of them the call raises at that block
\* (lines 228-229), never going past it.
C10_FatalFieldPolicy ==
    /\ xpc = "done" => (~SomeBlockBad /\ Len(emitted) = Len(BlocksOf(listing))
                        /\ Len(self_ratings) = Len(BlocksOf(listing)))
    /\ (xpc \in {"L211", "L221", "L252"} /\ SomeBlockBad)
          => \E p \in 1..Len(listing) : \E i \in 1..Len(content[listing[p]]) :
                /\ ~MandatoryOk(content[listing[p]][i])
                /\ \/ p > pi
                   \/ p = pi /\ xpc = "L211"
                   \/ p = pi /\ xpc = "L221" /\ i >= ti
    /\ (xpc = "raised" /\ xerr[2] \in {228, 229}) => ~MandatoryOk(Tags[ti])

C10_Witness ==
    /\ xpc = "raised"
    /\ xerr = <<"AttributeError", 228>>
    /\ index = 1
    /\ Len(listing) = 2
    /\ pi = 2
    /\ Tags[ti] = BlockNoRating

\* the documents the call has upserted so far are those of the first blocks of
\* the listing, page after page, numbered from 0
EmittedFollowsListing ==
    \A k \in 1..Len(emitted) :
        LET b == BlocksOf(listing)[k]
            d == emitted[k][2]
        IN  /\ d.review_idx = k - 1
            /\ d.rating = DigitVal(b.rating[1])
            /\ d.review = b.review

\* C11: a block with a rating and a review text but no author node gives a
\* record with author "Anonymous", one with no headline node gives headline
\* "No headline"; the record is upserted under the next index and the call
\* goes on with the blocks that follow.
C11_DefaultSubstitution ==
    /\ EmittedFollowsListing
    /\ \A k \in 1..Len(emitted) :
          LET b == BlocksOf(listing)[k]
              d == emitted[k][2]
          IN  /\ d.author = (IF b.author = NoNode THEN "Anonymous" ELSE b.author)
              /\ d.headline = (IF b.headline = NoNode THEN "No headline" ELSE b.headline)
              /\ emitted[k][1] \in DOMAIN tab
              /\ tab[emitted[k][1]] = d
    /\ (xpc = "done" /\ ~SomeBlockBad) => Len(emitted) = Len(BlocksOf(listing))

C11_Witness ==
    /\ xpc = "done"
    /\ Len(emitted) = 3
    /\ BlocksOf(listing) = <<BlockNoAuthor, BlockNoHeadline, BlockFull>>
    /\ emitted[1][2].author = "Anonymous"
    /\ emitted[2][2].headline = "No headline"
    /\ tab[MakeId(asin, 1)].headline = "No headline"

\* C12: a page without review block is skipped and the call goes on: when
\* every block is well-formed extract returns, and the batch is exactly the
\* records of the blocks of the listed pages, in listing order, wherever the
\* pages without blocks are.
C12_EmptyPageIsSkipped ==
    /\ EmittedFollowsListing
    /\ xpc = "raised" => xerr[2] \in {199, 205, 208}
    /\ xpc \in {"L252", "done"} => Len(emitted) = Len(BlocksOf(listing))
    /\ xpc = "done" => Len(self_ratings) = Len(BlocksOf(listing))

C12_Witness ==
    /\ xpc = "done"
    /\ Len(listing) = 3
    /\ content[listing[1]] = <<BlockFull2, BlockNoAuthor>>
    /\ content[listing[2]] = <<>>
    /\ content[listing[3]] = <<BlockFull>>
    /\ Len(emitted) = 3

\* C15: within one call the k-th record emitted, counting across the pages in
\* listing order, has index k - 1 and _id <asin>_<k-1>: the index starts at 0,
\* is not reset at a page boundary, a page without blocks uses no index, and
\* no two records of the call share an _id.
C15_IndexIsSequential ==
    /\ index = Len(emitted)
    /\ EmittedFollowsListing
    /\ \A k \in 1..Len(emitted) :
          /\ emitted[k][1] = asin \o <<"_">> \o IntToStr(k - 1)
          /\ emitted[k][2].asin = asin
    /\ \A j, k \in 1..Len(emitted) : j # k => emitted[j][1] # emitted[k][1]

C15_Witness ==
    /\ xpc = "L221"
    /\ Len(listing) = 3
    /\ pi = 3
    /\ content[listing[1]] = <<BlockFull>>
    /\ content[listing[2]] = <<>>
    /\ content[listing[3]] = <<BlockFull2, BlockNoAuthor>>
    /\ ti = 2
    /\ index = 2
    /\ emitted[2][1] = ProductId \o <<"_", "1">>

\* the _id values the current call has written
EmittedIds == { emitted[k][1] : k \in 1..Len(emitted) }

\* C19: when extract raises at a block (lines 228-229), the records of the
\* blocks before it in listing order, indices 0..k-1, are in the collection,
\* every other key is as the call found it, and self.ratings / self.reviews are
\* not assigned by a call that does not return.
C19_FailedExtractIsNotAtomic ==
    /\ [] ((xpc = "raised" /\ xerr[2] \in {228, 229})
              => /\ ~MandatoryOk(BlocksOf(listing)[index + 1])
                 /\ \A k \in 1..index : MandatoryOk(BlocksOf(listing)[k])
                 /\ Len(emitted) = index
                 /\ \A k \in 1..index :
                       /\ emitted[k][1] = MakeId(asin, k - 1)
                       /\ emitted[k][1] \in DOMAIN tab
                       /\ tab[emitted[k][1]] = emitted[k][2]
                 /\ DOMAIN tab = (DOMAIN tab1) \cup EmittedIds
                 /\ \A id \in (DOMAIN tab) \ EmittedIds : tab[id] = tab1[id])
    /\ [][xpc' # "done" => UNCHANGED <<self_ratings, self_reviews>>]_vars

C19_Witness ==
    /\ xpc = "raised"
    /\ xerr = <<"IndexError", 229>>
    /\ run = 1
    /\ index = 2
    /\ DOMAIN tab = {MakeId(asin, 0), MakeId(asin, 1)}
    /\ self_ratings = None

\* C18: extract never removes a key of the collection; when a later call over
\* a folder with fewer pages emits m records where the call before it had
\* left n > m, the records with indices m..n-1 of the earlier call are still
\* in the collection with the fields the earlier call gave them.
C18_NoDeleteOnResync ==
    /\ [][(DOMAIN tab) \subseteq (DOMAIN tab')]_vars
    /\ [] (run >= 2 =>
             \A k \in (Len(emitted) + 1)..Len(emitted1) :
                 /\ emitted1[k][1] = MakeId(asin, k - 1)
                 /\ emitted1[k][1] \in DOMAIN tab
                 /\ tab[emitted1[k][1]] = emitted1[k][2])

C18_Witness ==
    /\ run = 2
    /\ xpc = "done"
    /\ xpc1 = "done"
    /\ Len(emitted1) = 3
    /\ Len(emitted) = 1
    /\ Cardinality(files) = 1
    /\ DOMAIN tab = {MakeId(asin, 0), MakeId(asin, 1), MakeId(asin, 2)}
    /\ tab[MakeId(asin, 2)] = emitted1[3][2]

\* C13: whenever _get_id has returned without raising, the identifier it
\* stored has exactly 10 characters; the same URL gives the same identifier
\* each time it is derived.
C13_DerivedIdHasTenChars ==
    (pc \notin {"idle", "L105"} /\ ~(pc = "raised" /\ err[2] = 107))
        => /\ asin = GetIdValue(url)
           /\ Len(asin) = AsinLen

\* C16: a top-level invocation that launched the crawler because no folder
\* existed and then counted N >= 1 pages never polls, and returns with that
\* count: no purge, no second launch, no retry, no exception.
C16_FreshFetchTrustsCount ==
    [][(depth = 0 /\ retries = 0 /\ path[1] = "fresh" /\ last_page >= 1
            /\ pc \in {"L163", "L166", "L171"})
        => /\ polls' = 0
           /\ retries' = 0
           /\ purges' = purges
           /\ launches' = launches
           /\ pc' \in {"L163", "L166", "L171", "done"}]_vars

\* C17: at most two invocations of scrape are active (the top-level one and
\* one it called from line 167) and retries stays within 0..5; an invocation
\* called with retries > 0 purges first, launches the crawler at most once,
\* never reaches the retry loop of line 166 or the raise of line 173, and at
\* line 164 hands (retries, last_page) back to the top-level loop; ScrapeFailed
\* is raised by the top-level invocation only.
C17_RetryDepthBounded ==
    /\ [] /\ depth \in 0..1
          /\ retries \in 0..MaxRetries
          /\ depth = 1 => (retries >= 1 /\ delete /\ pc \notin {"L166", "L171", "done"})
          /\ (depth = 1 /\ pc \notin {"L105", "L111", "L66", "L69", "L75", "raised"})
                => purges >= retries
          /\ launches <= retries + 1
          /\ (pc = "raised" /\ err[1] = ScrapeFailed) => depth = 0
          /\ delRet = 173 => depth = 0
    /\ [][(depth = 1 /\ pc = "L163" /\ pc' # pc)
             => (depth' = 0 /\ pc' = "L166" /\ retries' = retries
                 /\ last_page' = last_page)]_vars
    /\ [][depth' > depth => (depth = 0 /\ pc = "L166" /\ retries' = retries + 1)]_vars

C17_Witness ==
    /\ depth = 0
    /\ pc = "L166"
    /\ retries = 2
    /\ last_page = 2
    /\ launches = 3
    /\ purges >= 2

\* the documents of product a in the collection
RecordsOf(t, a) ==
    LET keys == { k \in DOMAIN t : t[k].asin = a }
    IN  [k \in keys |-> t[k]]

\* C14: with two Loaders on two different product identifiers, whatever the
\* interleaving, a step of one Loader or of its crawler (purge, launch, page
\* writes, count, upsert) leaves the folder of the other product and the
\* documents of the other product as they were, and no _id of one product is
\* an _id of the other.
C14_DifferentProductsDoNotInterfere ==
    /\ [] /\ TwoAsins[1] # TwoAsins[2]
          /\ \A i, j \in 0..MaxSharedPages :
                MakeId(TwoAsins[1], i) # MakeId(TwoAsins[2], j)
          /\ \A k \in DOMAIN tab : k = MakeId(tab[k].asin, tab[k].review_idx)
    /\ [][\A L \in Loaders :
             TwoStep(L) =>
                 /\ disk'[Folder(3 - L)] = disk[Folder(3 - L)]
                 /\ RecordsOf(tab', TwoAsins[3 - L]) = RecordsOf(tab, TwoAsins[3 - L])]_vars

C14_Witness ==
    /\ l_pc[1] = "L123"
    /\ ~disk[Folder(1)].isdir
    /\ MakeId(TwoAsins[1], 1) \in DOMAIN tab
    /\ l_pc[2] = "L211"
    /\ l_index[2] = 1
    /\ disk[Folder(2)].files = 1..2
    /\ DOMAIN RecordsOf(tab, TwoAsins[2]) = {MakeId(TwoAsins[2], 0)}

====
